---- MODULE Spec2Model ----
(***************************************************************************)
(* State-machine model of the Kalshi REST client (src/kalshi_client.py):   *)
(* KalshiClient.request, the single signed HTTP call, and                  *)
(* KalshiClient.kalpaginate, the cursor pagination generator built on it.  *)
(***************************************************************************)
EXTENDS Integers, Sequences, FiniteSets, TLC

VARIABLES
    op,         \* where the program is: "start", "configured", "crashed" (before a client
                \* exists), "idle", or the operation running: "request", "paginate",
                \* "order", "fetch", "balance"
    clock,      \* time.time() in milliseconds
    config,     \* what config.py finds in the environment and on disk
    client,     \* the KalshiClient instance: api_key_id, base_url, private_key
    cmd,        \* arguments of the command-line command being run
    console,    \* what the command has shown to the user
    signed,     \* request(): locals ts_ms and signature
    canPc,      \* cancel_all_for_ticker: where the call is
    canResp,    \* cancel_all_for_ticker: local resp, the order listing
    canIdx,     \* cancel_all_for_ticker: position of the for loop in resp["orders"]
    results,    \* cancel_all_for_ticker: local results
    canCalls,   \* the calls of request() cancel_all_for_ticker has made, with what each returned
    frames,     \* calls of request() that threads run side by side on the one client
    reqPc,      \* position inside request(): "none", "prepared", "inflight", "returned", "raised"
    method,     \* request(): local `method` after method.upper()
    path,       \* request(): argument `path`, a sequence of string tokens
    data,       \* request(): argument `data`
    sent,       \* the HTTP call handed to the requests library (what goes on the wire)
    httpCalls,  \* number of HTTP calls issued by the current logical call of request()
    slept,      \* time the current logical call has spent sleeping, in units of base_delay
    outcome,    \* what the network did with the HTTP call
    result,     \* value returned by request()
    printed,    \* message request() printed to stdout, "" if none
    pagPc,      \* position inside kalpaginate(): "none", "loop", "await", "yield", "done", "raised"
    pg,         \* kalpaginate(): arguments base_path, limit, params
    cursor,     \* kalpaginate(): local `cursor`
    resp,       \* kalpaginate(): local `resp`
    idx,        \* kalpaginate(): position of the `for item in items` loop
    yielded,    \* items the generator has yielded so far, in order
    pageCalls,  \* history: the calls of request() made by this run, in order
    pagesGot    \* history: what each of those calls returned (value), what it printed
                \* (how) and whether a 2xx response stood behind it (ok), in order

reqVars == <<reqPc, signed, method, path, data, sent, httpCalls, slept, outcome, result,
             printed>>
pagVars == <<pagPc, pg, cursor, resp, idx, yielded, pageCalls, pagesGot>>
cliVars == <<clock, config, client, cmd, console>>
canVars == <<canPc, canResp, canIdx, results, canCalls>>
vars == <<op, cliVars, reqVars, pagVars, canVars, frames>>

(***************************************************************************)
(* Bounds of the model.                                                    *)
(***************************************************************************)
\* Largest number of page requests one run of the paginator is followed for.
MaxPages == 3

(***************************************************************************)
(* Parameters of the retry policy the specification describes (spec 4.3).  *)
(* The source has no counterpart: request() makes one attempt.             *)
(***************************************************************************)
max_attempts == 5

\* Total backoff of spec 4.3 after max_attempts transport failures, in units
\* of base_delay: 2^0 + ... + 2^(max_attempts-2).
RECURSIVE BackoffTotal(_)
BackoffTotal(n) == IF n <= 1 THEN 0 ELSE 2^(n-2) + BackoffTotal(n-1)

(***************************************************************************)
(* Python / JSON values.                                                   *)
(***************************************************************************)
\* Python None (also what JSON null parses to).
NoneVal == [kind |-> "None"]

\* A JSON object seen through the three keys the client reads: the items key
\* `key`, "cursor", and any other key ("error", "ticker", ...).
Dict(keys, items, cur) == [kind |-> "dict", keys |-> keys, items |-> items, cursor |-> cur]

\* A non-empty JSON array.
ListVal == [kind |-> "list"]

EmptyDict == Dict({}, <<>>, "")
ErrorBody == Dict({"other"}, <<>>, "")

\* Python truthiness: `if x` / `not x`.
Truthy(v) ==
    CASE v.kind = "None" -> FALSE
      [] v.kind = "dict" -> v.keys # {}
      [] v.kind = "list" -> TRUE
      [] v.kind = "str"  -> v.s # ""

\* dict.get(k, default) for the items key and dict.get("cursor").
GetItems(d) == IF "items" \in d.keys THEN d.items ELSE <<>>
GetCursor(d) == IF "cursor" \in d.keys THEN [kind |-> "str", s |-> d.cursor] ELSE NoneVal

\* Pages a server may deliver (and bodies it may attach to any response).
PageBodies ==
    { Dict({"items", "cursor"}, <<"a", "b">>, "x"),
      Dict({"items", "cursor"}, <<"c">>, "y"),
      Dict({"items", "cursor"}, <<>>, "x"),
      Dict({"cursor"}, <<>>, "y"),
      Dict({"items"}, <<"c">>, ""),
      Dict({"items", "cursor"}, <<"d">>, ""),
      Dict({"items"}, <<>>, "") }

JsonValues == PageBodies \cup {EmptyDict, ErrorBody, ListVal, NoneVal}

\* Raw response bodies: the text of a JSON value, or text that is not JSON.
RawBodies == {[json |-> TRUE, value |-> v] : v \in JsonValues}
             \cup {[json |-> FALSE, value |-> NoneVal]}

\* resp.json() with the decode error swallowed into an empty object.
ParseJsonSwallow(raw) == IF raw.json THEN [ok |-> TRUE, value |-> raw.value]
                         ELSE [ok |-> TRUE, value |-> EmptyDict]

\* resp.json(): the parsed value, or JSONDecodeError.
ParseJson(raw) == IF raw.json THEN [ok |-> TRUE, value |-> raw.value]
                  ELSE [ok |-> FALSE, value |-> NoneVal]

(***************************************************************************)
(* HTTP.                                                                   *)
(***************************************************************************)
Statuses == {200, 201, 400, 401, 403, 404, 429, 500, 502, 503, 504}
RetryableStatuses == {429, 500, 502, 503, 504}
IsSuccessStatus(s) == 200 <= s /\ s < 300

\* Retry-After header of a response: absent, numeric seconds, or not numeric.
RetryAfters == {"absent", "2", "soon"}

Methods == {"GET", "get", "POST", "PUT", "PATCH", "DELETE", "delete", "HEAD"}

\* str.upper() on the method names above.
Upper(m) ==
    CASE m = "get" -> "GET"
      [] m = "delete" -> "DELETE"
      [] OTHER -> m

DataValues == {NoneVal, EmptyDict, Dict({"other"}, <<>>, "")}

NoOutcome == [kind |-> "none", status |-> 0, raw |-> [json |-> FALSE, value |-> NoneVal],
              retryAfter |-> "absent"]

\* Kalshi trade API base path (used in signing and URLs).
API_BASE_PATH == "/trade-api/v2"

\* s.split("?", 1)[0] on a string kept as tokens, "?" being a token of its own.
RECURSIVE BeforeQuery(_)
BeforeQuery(toks) ==
    IF toks = <<>> \/ Head(toks) = "?" THEN <<>>
    ELSE <<Head(toks)>> \o BeforeQuery(Tail(toks))

\* SignedMessage with the query string left in the signed path.
SignedMessageWithQuery(timestamp_ms, m, p) == <<timestamp_ms, m, API_BASE_PATH>> \o p

\* SignedMessage with the logical path signed as it is, without the API prefix.
SignedMessageNoPrefix(timestamp_ms, m, p) == <<timestamp_ms, m>> \o BeforeQuery(p)

\* The message _create_signature signs: f"{timestamp_ms}{method}{path_without_query}".
SignedMessage(timestamp_ms, m, p) ==
    <<timestamp_ms, m>> \o BeforeQuery(<<API_BASE_PATH>> \o p)

\* _create_signature: the PSS/SHA-256 signature of the message under the key.
create_signature(key, timestamp_ms, m, p) ==
    [key |-> key, message |-> SignedMessage(timestamp_ms, m, p)]

\* s.rstrip("/") and s.endswith(API_BASE_PATH) on a URL kept as tokens.
RECURSIVE RStripSlash(_)
RStripSlash(u) ==
    IF u # <<>> /\ u[Len(u)] = "/" THEN RStripSlash(SubSeq(u, 1, Len(u) - 1)) ELSE u

EndsWithApiBasePath(u) == u # <<>> /\ u[Len(u)] = API_BASE_PATH

\* _build_url without the endswith test: the prefix is always added.
build_url_prefixed(base_url, p) == base_url \o <<API_BASE_PATH>> \o p

\* _build_url.
build_url(base_url, p) ==
    IF EndsWithApiBasePath(base_url) THEN base_url \o p
    ELSE base_url \o <<API_BASE_PATH>> \o p

NoSignature == [key |-> "", message |-> <<>>]
NoSigned == [ts_ms |-> "", signature |-> NoSignature]
NoHeaders == [names |-> {}, key |-> "", timestamp |-> "", signature |-> NoSignature,
              contentType |-> ""]
NoSent == [method |-> "", path |-> <<>>, url |-> <<>>, headers |-> NoHeaders,
           hasBody |-> FALSE, body |-> NoneVal]

\* The headers dict of lines 80-85.
Headers(api_key_id, ts_ms, signature) ==
    [names |-> {"KALSHI-ACCESS-KEY", "KALSHI-ACCESS-TIMESTAMP", "KALSHI-ACCESS-SIGNATURE",
                "Content-Type"},
     key |-> api_key_id, timestamp |-> ts_ms, signature |-> signature,
     contentType |-> "application/json"]

\* TimestampMs at the resolution of a second: str(int(time.time()) * 1000).
TimestampSeconds(now) == ToString((now \div 1000) * 1000)

\* ts_ms = str(int(time.time() * 1000)).
TimestampMs(now) == ToString(now)

\* BodySent with a body sent only for a non-GET method with non-empty data.
BodySentIfData(m, d) ==
    IF m # "GET" /\ Truthy(d) THEN [hasBody |-> TRUE, body |-> d]
    ELSE [hasBody |-> FALSE, body |-> NoneVal]

\* json.dumps(data or {}) for POST/PUT/PATCH; DELETE sends a body only `if data`.
BodySent(m, d) ==
    CASE m = "GET" -> [hasBody |-> FALSE, body |-> NoneVal]
      [] m \in {"POST", "PUT", "PATCH"} ->
            [hasBody |-> TRUE, body |-> IF Truthy(d) THEN d ELSE EmptyDict]
      [] m = "DELETE" ->
            IF Truthy(d) THEN [hasBody |-> TRUE, body |-> d]
            ELSE [hasBody |-> FALSE, body |-> NoneVal]

SupportedMethods == {"GET", "POST", "PUT", "PATCH", "DELETE"}

(***************************************************************************)
(* KalshiClient.request                                                    *)
(***************************************************************************)
\* Entry of request(method, path, data): lines 75-87 (upper-casing, headers, url).
EnterRequest(m, p, d) ==
    /\ reqPc' = "prepared"
    /\ method' = Upper(m)
    /\ signed' = [ts_ms |-> TimestampMs(clock),
                  signature |-> create_signature(client.private_key, TimestampMs(clock),
                                                 Upper(m), p)]
    /\ path' = p
    /\ data' = d
    /\ sent' = NoSent
    /\ httpCalls' = 0
    /\ slept' = 0
    /\ outcome' = NoOutcome
    /\ result' = NoneVal
    /\ printed' = ""

\* The value request() returns when requests raises RequestException.
RequestErrorResult == NoneVal

\* The value request() returns when resp.json() raises JSONDecodeError.
InvalidJsonResult == NoneVal

\* Lines 89-104: dispatch on the method and hand the call to the transport.
SendHttp ==
    /\ reqPc = "prepared"
    /\ method \in SupportedMethods
    /\ reqPc' = "inflight"
    /\ sent' = [method |-> method, path |-> path,
                url |-> build_url(client.base_url, path),
                headers |-> Headers(client.api_key_id, signed.ts_ms, signed.signature),
                hasBody |-> BodySent(method, data).hasBody,
                body |-> BodySent(method, data).body]
    /\ httpCalls' = httpCalls + 1
    /\ UNCHANGED <<op, cliVars, signed, method, path, data, slept, outcome, result, printed, pagVars, canVars, frames>>

\* Line 104: `raise ValueError`, which the `except requests.RequestException`
\* does not catch; no HTTP call is made.
UnsupportedMethod ==
    /\ reqPc = "prepared"
    /\ method \notin SupportedMethods
    /\ reqPc' = "raised"
    /\ UNCHANGED <<op, cliVars, signed, method, path, data, sent, httpCalls, slept, outcome, result,
                   printed, pagVars, canVars, frames>>

\* HttpFails as a retry loop would have it: back off base_delay * 2^n and send
\* again until max_attempts calls were made.
HttpFailsRetried ==
    /\ reqPc = "inflight"
    /\ IF httpCalls < max_attempts
       THEN /\ reqPc' = "prepared"
            /\ slept' = slept + 2^(httpCalls - 1)
            /\ UNCHANGED <<outcome, printed, result>>
       ELSE /\ outcome' = [NoOutcome EXCEPT !.kind = "transport"]
            /\ printed' = "Request error"
            /\ result' = RequestErrorResult
            /\ reqPc' = "returned"
            /\ slept' = slept
    /\ UNCHANGED <<op, cliVars, signed, method, path, data, sent, httpCalls, pagVars, canVars, frames>>

\* HttpFails as a retry loop without an attempt ceiling.
HttpFailsRetriedForever ==
    /\ reqPc = "inflight"
    /\ reqPc' = "prepared"
    /\ UNCHANGED <<op, cliVars, signed, method, path, data, sent, httpCalls, slept, outcome, result,
                   printed, pagVars, canVars, frames>>

\* Lines 105-107: the transport raised RequestException (no response received).
HttpFails ==
    /\ reqPc = "inflight"
    /\ outcome' = [NoOutcome EXCEPT !.kind = "transport"]
    /\ printed' = "Request error"
    /\ result' = RequestErrorResult
    /\ reqPc' = "returned"
    /\ UNCHANGED <<op, cliVars, signed, method, path, data, sent, httpCalls, slept, pagVars, canVars, frames>>

\* HandleResponse with a 429 answered by a delay (Retry-After seconds, else
\* base_delay * 2^n) and another attempt.
HandleResponseWithBackoff(status, raw, ra) ==
    /\ outcome' = [kind |-> "response", status |-> status, raw |-> raw, retryAfter |-> ra]
    /\ IF status = 429 /\ httpCalls < max_attempts
       THEN /\ reqPc' = "prepared"
            /\ slept' = slept + (IF ra = "2" THEN 2 * 4 ELSE 2^(httpCalls - 1))
            /\ UNCHANGED <<result, printed>>
       ELSE /\ result' = IF ParseJson(raw).ok THEN ParseJson(raw).value ELSE InvalidJsonResult
            /\ printed' = IF ParseJson(raw).ok THEN ""
                          ELSE "Warning: response was not valid JSON"
            /\ reqPc' = "returned"
            /\ slept' = slept
    /\ UNCHANGED <<op, cliVars, signed, method, path, data, sent, httpCalls, pagVars, canVars, frames>>

\* What request() does with a received response.  The status test of lines
\* 109-113 sits inside the except block after `return None` and never runs:
\* every response, whatever its status, goes to resp.json() (lines 115-119).
HandleResponse(status, raw, ra) ==
    /\ outcome' = [kind |-> "response", status |-> status, raw |-> raw, retryAfter |-> ra]
    /\ IF ParseJson(raw).ok
       THEN /\ result' = ParseJson(raw).value
            /\ printed' = ""
       ELSE /\ result' = InvalidJsonResult
            /\ printed' = "Warning: response was not valid JSON"
    /\ reqPc' = "returned"
    /\ UNCHANGED <<op, cliVars, signed, method, path, data, sent, httpCalls, slept, pagVars, canVars, frames>>

\* A response arrives for the HTTP call in flight.
HttpResponds ==
    /\ reqPc = "inflight"
    /\ \E status \in Statuses, raw \in RawBodies, ra \in RetryAfters :
          HandleResponse(status, raw, ra)

(***************************************************************************)
(* Direct use of request() (main.py cmd_raw and the high-level helpers).   *)
(***************************************************************************)
Paths == { <<"/portfolio/balance">>, <<"/markets", "?", "status=open">> }

CallRequest ==
    /\ op = "idle"
    /\ op' = "request"
    /\ \E m \in Methods, p \in Paths, d \in DataValues : EnterRequest(m, p, d)
    /\ UNCHANGED <<cliVars, pagVars, canVars, frames>>

\* The caller takes the return value (or the exception); the frame is gone.
ClearRequest ==
    /\ reqPc' = "none"
    /\ signed' = NoSigned
    /\ method' = ""
    /\ path' = <<>>
    /\ data' = NoneVal
    /\ sent' = NoSent
    /\ httpCalls' = 0
    /\ slept' = 0
    /\ outcome' = NoOutcome
    /\ result' = NoneVal
    /\ printed' = ""

FinishRequest ==
    /\ op = "request"
    /\ reqPc \in {"returned", "raised"}
    /\ op' = "idle"
    /\ ClearRequest
    /\ UNCHANGED <<cliVars, pagVars, canVars, frames>>

(***************************************************************************)
(* KalshiClient._build_query and KalshiClient.kalpaginate                  *)
(***************************************************************************)
StrVal(s) == [kind |-> "str", s |-> s]
IntVal(n) == [kind |-> "int", n |-> n]

\* f"{v}" for the values a query holds.
Format(v) == IF v.kind = "int" THEN ToString(v.n) ELSE v.s

\* q[k] = v on an insertion-ordered dict, kept as a sequence of pairs.
DictSet(q, k, v) ==
    IF \E i \in 1..Len(q) : q[i].k = k
    THEN [i \in 1..Len(q) |-> IF q[i].k = k THEN [k |-> k, v |-> v] ELSE q[i]]
    ELSE Append(q, [k |-> k, v |-> v])

\* The parts list of _build_query: pairs whose value is None or "" are skipped.
RECURSIVE QueryParts(_)
QueryParts(q) ==
    IF q = <<>> THEN <<>>
    ELSE LET h == q[1]
             skip == h.v.kind = "None" \/ (h.v.kind = "str" /\ h.v.s = "")
         IN  (IF skip THEN <<>> ELSE << h.k \o "=" \o Format(h.v) >>) \o QueryParts(Tail(q))

\* "&".join(parts), as tokens.
RECURSIVE JoinAmp(_)
JoinAmp(parts) ==
    IF Len(parts) <= 1 THEN parts
    ELSE <<parts[1], "&">> \o JoinAmp(Tail(parts))

build_query(q) == JoinAmp(QueryParts(q))

\* PageQuery with the limit sent on the first page only.
PageQueryLimitOnce(params, limit, cur) ==
    LET q0 == IF params.kind = "None" THEN <<>> ELSE params.pairs
    IN  IF Truthy(cur) THEN DictSet(q0, "cursor", cur) ELSE DictSet(q0, "limit", IntVal(limit))

\* Lines 136-139: q = dict(params or {}); q["limit"] = limit; if cursor: q["cursor"] = cursor.
PageQuery(params, limit, cur) ==
    LET q0 == IF params.kind = "None" THEN <<>> ELSE params.pairs
        q1 == DictSet(q0, "limit", IntVal(limit))
    IN  IF Truthy(cur) THEN DictSet(q1, "cursor", cur) ELSE q1

\* Line 142: path = base_path if not qs else f"{base_path}?{qs}".
PagePath(base_path, qs) == IF qs = <<>> THEN <<base_path>> ELSE <<base_path, "?">> \o qs

NoParams == [kind |-> "None", pairs |-> <<>>]
Params(pairs) == [kind |-> "dict", pairs |-> pairs]

\* Arguments kalpaginate is called with (key is the items key of the Dict values).
PagArgs ==
    { [base_path |-> "/markets", limit |-> 2, params |-> NoParams],
      [base_path |-> "/markets", limit |-> 100,
       params |-> Params(<< [k |-> "status", v |-> StrVal("open")] >>)],
      [base_path |-> "/portfolio/orders", limit |-> 2,
       params |-> Params(<< [k |-> "status", v |-> StrVal("")],
                            [k |-> "ticker", v |-> NoneVal] >>)] }

NoPg == [base_path |-> "", limit |-> 0, params |-> NoParams]

\* Line 133 and the first next() on the generator.
CallPaginate ==
    /\ op = "idle"
    /\ op' = "paginate"
    /\ \E a \in PagArgs : pg' = a
    /\ pagPc' = "loop"
    /\ cursor' = NoneVal
    /\ resp' = NoneVal
    /\ idx' = 0
    /\ yielded' = <<>>
    /\ pageCalls' = <<>>
    /\ pagesGot' = <<>>
    /\ UNCHANGED <<cliVars, reqVars, canVars, frames>>

\* Lines 136-144: build the query and call self.request("GET", path).
PagRequest ==
    /\ op = "paginate"
    /\ pagPc = "loop"
    /\ Len(pageCalls) < MaxPages
    /\ LET p == PagePath(pg.base_path, build_query(PageQuery(pg.params, pg.limit, cursor)))
       IN  /\ EnterRequest("GET", p, NoneVal)
           /\ pageCalls' = Append(pageCalls, [path |-> p, cursor |-> cursor])
    /\ pagPc' = "await"
    /\ UNCHANGED <<op, cliVars, pg, cursor, resp, idx, yielded, pagesGot,
                   canVars, frames>>

\* AfterResponse ending the sequence at a page without items (`if not items: break`).
AfterResponseStopOnEmpty(r) ==
    IF ~Truthy(r) THEN "done"
    ELSE IF r.kind # "dict" THEN "raised"
    ELSE IF GetItems(r) = <<>> THEN "done"
    ELSE "yield"

\* AfterResponse going round the loop on a failed request (`continue` for `break`).
AfterResponseContinue(r) ==
    IF ~Truthy(r) THEN "loop"
    ELSE IF r.kind # "dict" THEN "raised"
    ELSE "yield"

\* Where the generator goes with the value request() returned (lines 145-149).
AfterResponse(r) ==
    IF ~Truthy(r) THEN "done"
    ELSE IF r.kind # "dict" THEN "raised"
    ELSE "yield"

\* Lines 144-148: resp = self.request(...); if not resp: break; items = resp.get(key, []).
\* A truthy value that is no dict has no .get: AttributeError leaves the generator.
PagResume ==
    /\ op = "paginate"
    /\ pagPc = "await"
    /\ reqPc = "returned"
    /\ resp' = result
    /\ pagesGot' = Append(pagesGot,
          [how |-> printed,
           ok |-> outcome.kind = "response" /\ IsSuccessStatus(outcome.status),
           value |-> result])
    /\ pagPc' = AfterResponse(result)
    /\ idx' = 1
    /\ ClearRequest
    /\ UNCHANGED <<op, cliVars, pg, cursor, yielded, pageCalls,
                   canVars, frames>>

\* Lines 149-150: yield the next item of the page.
PagYield ==
    /\ op = "paginate"
    /\ pagPc = "yield"
    /\ idx <= Len(GetItems(resp))
    /\ yielded' = Append(yielded, GetItems(resp)[idx])
    /\ idx' = idx + 1
    /\ UNCHANGED <<op, cliVars, reqVars, pagPc, pg, cursor, resp, pageCalls, pagesGot,
                   canVars, frames>>

\* NextCursor keeping a cursor once it has one (`cursor = cursor or resp.get("cursor")`).
NextCursorStale(r, cur) == IF Truthy(cur) THEN cur ELSE GetCursor(r)

\* The cursor the loop goes on with (line 152).
NextCursor(r, cur) == GetCursor(r)

\* Lines 152-154: cursor = resp.get("cursor"); if not cursor: break.
PagAdvance ==
    /\ op = "paginate"
    /\ pagPc = "yield"
    /\ idx > Len(GetItems(resp))
    /\ cursor' = NextCursor(resp, cursor)
    /\ pagPc' = IF Truthy(NextCursor(resp, cursor)) THEN "loop" ELSE "done"
    /\ UNCHANGED <<op, cliVars, reqVars, pg, resp, idx, yielded, pageCalls, pagesGot,
                   canVars, frames>>

\* The consumer sees StopIteration (or the exception); the generator is gone.
FinishPaginate ==
    /\ op = "paginate"
    /\ pagPc \in {"done", "raised"}
    /\ op' = "idle"
    /\ pagPc' = "none"
    /\ pg' = NoPg
    /\ cursor' = NoneVal
    /\ resp' = NoneVal
    /\ idx' = 0
    /\ yielded' = <<>>
    /\ pageCalls' = <<>>
    /\ pagesGot' = <<>>
    /\ UNCHANGED <<cliVars, reqVars, canVars, frames>>

\* The default of KALSHI_BASE_URL in config.py.
Host == "https://demo-api.kalshi.co"
DefaultBaseUrl == <<Host, API_BASE_PATH>>

NoCmd == [name |-> "", json |-> FALSE, yes |-> NoneVal, no |-> NoneVal, qty |-> 0,
          side |-> "", all |-> FALSE, status |-> "", limit |-> 0]

\* Threads that call request() side by side, and a thread that is in no call.
Threads == {1, 2}
NoFrame == [pc |-> "none", args |-> [method |-> "", path |-> <<>>, data |-> NoneVal],
            entered |-> 0, method |-> "", signed |-> NoSigned, sent |-> NoSent,
            outcome |-> NoOutcome, result |-> NoneVal]

\* cancel_all_for_ticker is not running.
NoCancelAll ==
    /\ canPc = "none"
    /\ canResp = NoneVal
    /\ canIdx = 0
    /\ results = <<>>
    /\ canCalls = <<>>
NoConsole == [msg |-> "", json |-> NoneVal, cash |-> <<>>, portfolio |-> <<>>]
NoClient == [state |-> "none", api_key_id |-> "", base_url |-> <<>>, private_key |-> ""]

\* Everything of a state but op, clock, config and client: no operation is running.
Quiet ==
    /\ cmd = NoCmd
    /\ console = NoConsole
    /\ reqPc = "none"
    /\ signed = NoSigned
    /\ method = ""
    /\ path = <<>>
    /\ data = NoneVal
    /\ sent = NoSent
    /\ httpCalls = 0
    /\ slept = 0
    /\ outcome = NoOutcome
    /\ result = NoneVal
    /\ printed = ""
    /\ pagPc = "none"
    /\ pg = NoPg
    /\ cursor = NoneVal
    /\ resp = NoneVal
    /\ idx = 0
    /\ yielded = <<>>
    /\ pageCalls = <<>>
    /\ pagesGot = <<>>
    /\ NoCancelAll
    /\ frames = [t \in Threads |-> NoFrame]

\* The state after KalshiClient(...) was constructed from the default configuration.
Init ==
    /\ op = "idle"
    /\ clock = 0
    /\ config = [api_key_id |-> "key-1", keyFile |-> "valid_pem", base_url |-> DefaultBaseUrl]
    /\ client = [state |-> "ready", api_key_id |-> "key-1", base_url |-> DefaultBaseUrl,
                 private_key |-> "private-key"]
    /\ Quiet

Next ==
    \/ CallRequest
    \/ SendHttp
    \/ UnsupportedMethod
    \/ HttpFails
    \/ HttpResponds
    \/ FinishRequest
    \/ CallPaginate
    \/ PagRequest
    \/ PagResume
    \/ PagYield
    \/ PagAdvance
    \/ FinishPaginate

Spec == Init /\ [][Next]_vars

\* The client used through direct calls of request() alone.
RequestNext ==
    \/ CallRequest
    \/ SendHttp
    \/ UnsupportedMethod
    \/ HttpFails
    \/ HttpResponds
    \/ FinishRequest

\* request() is straight-line code and every HTTP call carries timeout=10: a call
\* that was entered is sent, and a call in flight ends in a response or an error.
RequestStep == SendHttp \/ UnsupportedMethod \/ HttpFails \/ HttpResponds

RequestFairSpec == Init /\ [][RequestNext]_vars /\ WF_vars(RequestStep)

(***************************************************************************)
(* Start of the program: config.py, then KalshiClient.__init__ in main().  *)
(***************************************************************************)
\* Largest reading of the millisecond clock.
MaxClock == 1

\* What KALSHI_PRIVATE_KEY_PATH may point at.
KeyFiles == {"valid_pem", "missing", "directory", "unreadable", "not_pem", "encrypted_pem"}

\* Values of KALSHI_BASE_URL: with or without the API prefix at the end, with or
\* without trailing slashes, with the prefix followed by a further segment, and
\* with a path of its own in front of where the prefix goes.
BaseUrls ==
    { <<Host>>, <<Host, "/">>,
      <<Host, API_BASE_PATH>>, <<Host, API_BASE_PATH, "/">>,
      <<Host, API_BASE_PATH, "/", "/">>,
      <<Host, API_BASE_PATH, "/v1">>,
      <<Host, "/proxy">> }

Configs == [api_key_id : {"", "key-1"}, keyFile : KeyFiles, base_url : BaseUrls]

StartInit ==
    /\ op = "start"
    /\ clock = 0
    /\ config \in Configs
    /\ client = NoClient
    /\ Quiet

\* time passes
Tick ==
    /\ clock < MaxClock
    /\ clock' = clock + 1
    /\ UNCHANGED <<op, config, client, cmd, console, reqVars, pagVars, canVars, frames>>

\* config.py at import: _getenv_required raises RuntimeError on an empty variable,
\* the sanity checks raise FileNotFoundError; BASE_URL is read with .rstrip("/").
LoadConfig ==
    /\ op = "start"
    /\ IF config.api_key_id = "" \/ config.keyFile \in {"missing", "directory"}
       THEN op' = "crashed"
       ELSE op' = "configured"
    /\ UNCHANGED <<cliVars, reqVars, pagVars, canVars, frames>>

\* _load_private_key with a file that fails to load giving no key instead of raising.
LoadPrivateKeyLenient(keyFile) ==
    IF keyFile = "valid_pem" THEN [ok |-> TRUE, key |-> "private-key"]
    ELSE [ok |-> TRUE, key |-> ""]

\* _load_private_key: open(path, "rb") raises OSError on a missing or unreadable
\* file or a directory; load_pem_private_key(data, password=None) raises ValueError
\* on data that is no PEM key and TypeError on an encrypted key.
LoadPrivateKey(keyFile) ==
    IF keyFile = "valid_pem" THEN [ok |-> TRUE, key |-> "private-key"]
    ELSE [ok |-> FALSE, key |-> ""]

\* main(): client = KalshiClient(config.API_KEY_ID, config.PRIVATE_KEY_PATH,
\* config.BASE_URL).  An exception of __init__ is not caught: the process ends
\* and `client` was never bound.
Construct ==
    /\ op = "configured"
    /\ LET loaded == LoadPrivateKey(config.keyFile)
       IN  IF loaded.ok
           THEN /\ client' = [state |-> "ready",
                              api_key_id |-> config.api_key_id,
                              base_url |-> RStripSlash(RStripSlash(config.base_url)),
                              private_key |-> loaded.key]
                /\ op' = "idle"
           ELSE /\ client' = NoClient
                /\ op' = "crashed"
    /\ UNCHANGED <<clock, config, cmd, console, reqVars, pagVars, canVars, frames>>

ClientNext ==
    \/ Tick
    \/ LoadConfig
    \/ Construct
    \/ CallRequest
    \/ SendHttp
    \/ UnsupportedMethod
    \/ HttpFails
    \/ HttpResponds
    \/ FinishRequest

\* The program from its start, using the client through request().
ClientSpec == StartInit /\ [][ClientNext]_vars


(***************************************************************************)
(* main.py: money formatting.                                              *)
(***************************************************************************)
DigitChars == <<"0", "1", "2", "3", "4", "5", "6", "7", "8", "9">>

\* The decimal digits of a natural number, one character per token.
RECURSIVE Digits(_)
Digits(n) ==
    IF n < 10 THEN <<DigitChars[n + 1]>>
    ELSE Digits(n \div 10) \o <<DigitChars[(n % 10) + 1]>>

\* A group of three digits after a thousands separator, and the two decimals.
Pad3(n) == <<DigitChars[(n \div 100) + 1], DigitChars[((n \div 10) % 10) + 1],
             DigitChars[(n % 10) + 1]>>
Pad2(n) == <<DigitChars[(n \div 10) + 1], DigitChars[(n % 10) + 1]>>

\* The "," option of the format specification: groups of three from the right.
RECURSIVE Grouped(_)
Grouped(n) ==
    IF n < 1000 THEN Digits(n)
    ELSE Grouped(n \div 1000) \o <<",">> \o Pad3(n % 1000)

\* `cents or 0`: None and 0 give 0.
CentsOrZero(v) == IF v.kind = "None" THEN 0 ELSE v.n

\* cents_to_dollars with floor division (`//` for `/`): the cents are lost.
cents_to_dollars_floor(v) ==
    <<"$">> \o Grouped(CentsOrZero(v) \div 100) \o <<".", "0", "0">>

\* cents_to_dollars: f"${(cents or 0) / 100:,.2f}" for a non-negative amount.  The
\* double nearest to cents/100 rounds to two decimals at exactly cents hundredths
\* for every amount below 2^53 cents.
cents_to_dollars(v) ==
    <<"$">> \o Grouped(CentsOrZero(v) \div 100) \o <<".">> \o Pad2(CentsOrZero(v) % 100)

(***************************************************************************)
(* main.py: the balance, orders, positions and order placing commands.     *)
(***************************************************************************)
\* Largest amount, in cents, of the run of consecutive amounts a balance takes.
MaxCents == 120

CentAmounts == (0..MaxCents) \cup {999, 1000, 9999, 25000, 99999, 100000, 150000, 123456789}

\* A balance object: {"balance": ..., "portfolio_value": ...} with either key absent.
BalDict(keys, b, pv) ==
    [kind |-> "dict", keys |-> keys, balance |-> b, portfolio_value |-> pv]

BalanceBodies ==
    {BalDict({"balance", "portfolio_value"}, IntVal(c), IntVal(25000)) : c \in CentAmounts}
    \cup {BalDict({"balance"}, IntVal(c), NoneVal) : c \in {0, 150000}}
    \cup {BalDict({"balance", "portfolio_value"}, NoneVal, IntVal(c)) : c \in {0, 25000}}

\* dict.get(k, default) on a balance object.
GetCents(d, k) ==
    IF k \notin d.keys THEN IntVal(0)
    ELSE IF k = "balance" THEN d.balance ELSE d.portfolio_value

Message(m) == [NoConsole EXCEPT !.msg = m]

\* render_balance.
render_balance(bal) ==
    [msg |-> "Account Balance", json |-> NoneVal,
     cash |-> cents_to_dollars(GetCents(bal, "balance")),
     portfolio |-> cents_to_dollars(GetCents(bal, "portfolio_value"))]

FetchNames == {"balance", "orders", "positions"}

\* The path get_balance, get_orders and get_positions request with the defaults of
\* the parser.
FetchPath(name) ==
    CASE name = "balance" -> <<"/portfolio/balance">>
      [] name = "orders" ->
            PagePath("/portfolio/orders",
                     build_query(<< [k |-> "limit", v |-> IntVal(100)],
                                    [k |-> "status", v |-> StrVal("resting")] >>))
      [] name = "positions" ->
            PagePath("/portfolio/positions",
                     build_query(<< [k |-> "limit", v |-> IntVal(100)],
                                    [k |-> "settlement_status", v |-> StrVal("unsettled")],
                                    [k |-> "count_filter", v |-> StrVal("position")] >>))

\* What cmd_balance, cmd_orders and cmd_positions show for the value r that the
\* client returned.  The list of orders or positions is the items key of r.
FetchShown(name, json, r) ==
    IF ~Truthy(r) THEN Message("Failed to fetch " \o name \o ".")
    ELSE IF json THEN [NoConsole EXCEPT !.msg = "json", !.json = r]
    ELSE IF r.kind # "dict" THEN Message("AttributeError")
    ELSE IF name = "balance" THEN render_balance(r)
    ELSE IF GetItems(r) # <<>> THEN Message(name \o " table")
    ELSE IF name = "orders" THEN Message("No orders found for the given filters.")
    ELSE Message("No market positions found.")

\* cmd_balance, cmd_orders, cmd_positions up to the call of request().
CmdFetch ==
    /\ op = "idle"
    /\ op' = "fetch"
    /\ \E name \in FetchNames, json \in BOOLEAN :
          /\ cmd' = [NoCmd EXCEPT !.name = name, !.json = json]
          /\ EnterRequest("GET", FetchPath(name), NoneVal)
    /\ UNCHANGED <<clock, config, client, console, pagVars, canVars, frames>>

\* The rest of the handler.  The outcome of the request stays on record until the
\* command ends.
FetchReturn ==
    /\ op = "fetch"
    /\ reqPc = "returned"
    /\ console' = FetchShown(cmd.name, cmd.json, result)
    /\ op' = "shown"
    /\ UNCHANGED <<clock, config, client, cmd, reqVars, pagVars, canVars, frames>>

\* The server answers the call in flight with status 200 and a balance object.
BalanceResponds ==
    /\ reqPc = "inflight"
    /\ \E b \in BalanceBodies : HandleResponse(200, [json |-> TRUE, value |-> b], "absent")

\* The command is over.
Exit ==
    /\ op = "shown"
    /\ op' = "idle"
    /\ cmd' = NoCmd
    /\ console' = NoConsole
    /\ ClearRequest
    /\ canPc' = "none"
    /\ canResp' = NoneVal
    /\ canIdx' = 0
    /\ results' = <<>>
    /\ canCalls' = <<>>
    /\ UNCHANGED <<clock, config, client, pagVars, frames>>

BalanceNext ==
    \/ CmdFetch
    \/ SendHttp
    \/ BalanceResponds
    \/ FetchReturn
    \/ Exit

\* The fetch commands against a server that answers with balance objects.
BalanceSpec == Init /\ [][BalanceNext]_vars

(***************************************************************************)
(* Order placing: main._place_order_from_args and KalshiClient.place_order *)
(***************************************************************************)
\* --yes / --no as given on the command line (type=int, default None), and --qty.
PriceArgs == {NoneVal} \cup {IntVal(p) : p \in {0, 1, 99, 100}}
Quantities == {-1, 0, 1, 2}
Sides == {"buy", "sell"}
Ticker == "TICKER-1"

\* A dict built from its (key, value) pairs in insertion order.
PairsDict(q) == [kind |-> "dict", keys |-> {q[i].k : i \in 1..Len(q)}, pairs |-> q]

\* ValidateOrder with the ends of the price range let through (0 <= p <= 100).
ValidateOrderLoose(yes, no, qty) ==
    IF yes.kind = "None" /\ no.kind = "None"
    THEN "You must provide either --yes or --no price."
    ELSE IF yes.kind # "None" /\ no.kind # "None"
    THEN "Provide only one of --yes or --no, not both."
    ELSE IF yes.kind # "None" /\ ~(0 <= yes.n /\ yes.n <= 100)
    THEN "--yes price must be between 1 and 99 (cents)."
    ELSE IF no.kind # "None" /\ ~(0 <= no.n /\ no.n <= 100)
    THEN "--no price must be between 1 and 99 (cents)."
    ELSE IF qty <= 0
    THEN "--qty must be positive."
    ELSE ""

\* The validation of _place_order_from_args (lines 469-487): the message of the
\* first test that rejects the arguments, "" when none does.
ValidateOrder(yes, no, qty) ==
    IF yes.kind = "None" /\ no.kind = "None"
    THEN "You must provide either --yes or --no price."
    ELSE IF yes.kind # "None" /\ no.kind # "None"
    THEN "Provide only one of --yes or --no, not both."
    ELSE IF yes.kind # "None" /\ ~(1 <= yes.n /\ yes.n <= 99)
    THEN "--yes price must be between 1 and 99 (cents)."
    ELSE IF no.kind # "None" /\ ~(1 <= no.n /\ no.n <= 99)
    THEN "--no price must be between 1 and 99 (cents)."
    ELSE IF qty <= 0
    THEN "--qty must be positive."
    ELSE ""

\* OrderBody with the second price test an `elif`: at most one price key.
OrderBodyOnePrice(ticker, side, action, quantity, yes_price, no_price, order_type) ==
    LET b0 == << [k |-> "ticker", v |-> StrVal(ticker)],
                 [k |-> "action", v |-> StrVal(action)],
                 [k |-> "type", v |-> StrVal(order_type)],
                 [k |-> "side", v |-> StrVal(side)],
                 [k |-> "count", v |-> IntVal(quantity)] >>
    IN  PairsDict(IF yes_price.kind # "None" THEN DictSet(b0, "yes_price", yes_price)
                  ELSE IF no_price.kind # "None" THEN DictSet(b0, "no_price", no_price)
                  ELSE b0)

\* The body place_order builds (lines 181-193).
OrderBody(ticker, side, action, quantity, yes_price, no_price, order_type) ==
    LET b0 == << [k |-> "ticker", v |-> StrVal(ticker)],
                 [k |-> "action", v |-> StrVal(action)],
                 [k |-> "type", v |-> StrVal(order_type)],
                 [k |-> "side", v |-> StrVal(side)],
                 [k |-> "count", v |-> IntVal(quantity)] >>
        b1 == IF yes_price.kind # "None" THEN DictSet(b0, "yes_price", yes_price) ELSE b0
        b2 == IF no_price.kind # "None" THEN DictSet(b1, "no_price", no_price) ELSE b1
    IN  PairsDict(b2)

\* place_order up to the call of request() (line 195); order_type keeps its default.
place_order(ticker, side, action, quantity, yes_price, no_price) ==
    EnterRequest("POST", <<"/portfolio/orders">>,
                 OrderBody(ticker, side, action, quantity, yes_price, no_price, "limit"))

\* cmd_order, cmd_buy, cmd_sell: _place_order_from_args up to the return of a
\* rejection or the call of place_order.
CmdOrder ==
    /\ op = "idle"
    /\ \E side \in Sides, yes \in PriceArgs, no \in PriceArgs, qty \in Quantities,
          json \in BOOLEAN :
          /\ cmd' = [NoCmd EXCEPT !.name = "order", !.json = json, !.side = side,
                                  !.yes = yes, !.no = no, !.qty = qty]
          /\ IF ValidateOrder(yes, no, qty) # ""
             THEN /\ console' = Message(ValidateOrder(yes, no, qty))
                  /\ op' = "shown"
                  /\ UNCHANGED reqVars
             ELSE /\ place_order(Ticker, IF yes.kind # "None" THEN "yes" ELSE "no", side,
                                 qty, yes, no)
                  /\ op' = "order"
                  /\ UNCHANGED console
    /\ UNCHANGED <<clock, config, client, pagVars, canVars, frames>>

\* What _place_order_from_args shows for the value place_order returned (lines 500-525).
OrderShown(json, r) ==
    IF ~Truthy(r) THEN Message("Order request failed (no response or HTTP error).")
    ELSE IF json THEN [NoConsole EXCEPT !.msg = "json", !.json = r]
    ELSE IF r.kind # "dict" THEN Message("AttributeError")
    ELSE Message("Order sent")

OrderReturn ==
    /\ op = "order"
    /\ reqPc = "returned"
    /\ console' = OrderShown(cmd.json, result)
    /\ op' = "shown"
    /\ UNCHANGED <<clock, config, client, cmd, reqVars, pagVars, canVars, frames>>

\* A program calls KalshiClient.place_order itself, with any prices.
CallPlaceOrder ==
    /\ op = "idle"
    /\ op' = "place_order"
    /\ \E side \in {"yes", "no"}, yes \in PriceArgs, no \in PriceArgs :
          /\ cmd' = [NoCmd EXCEPT !.name = "place_order", !.side = "buy", !.yes = yes,
                                  !.no = no, !.qty = 1]
          /\ place_order(Ticker, side, "buy", 1, yes, no)
    /\ UNCHANGED <<clock, config, client, console, pagVars, canVars, frames>>

\* place_order returns what request() returned.
FinishPlaceOrder ==
    /\ op = "place_order"
    /\ reqPc = "returned"
    /\ op' = "idle"
    /\ cmd' = NoCmd
    /\ ClearRequest
    /\ UNCHANGED <<clock, config, client, console, pagVars, canVars, frames>>

(***************************************************************************)
(* main.py: the markets command.                                           *)
(***************************************************************************)
\* The public methods class KalshiClient defines.
ClientMethods ==
    {"request", "kalpaginate", "get_balance", "list_markets", "place_order", "get_positions",
     "get_orders", "cancel_order", "cancel_all_for_ticker"}

\* The defaults of --status, --limit and --page-limit.
MarketsStatus == "open"
MarketsLimit == 15
PageLimit == 100

\* The path list_markets requests (lines 166-169).
ListMarketsPath(status, limit) ==
    PagePath("/markets", build_query(<< [k |-> "status", v |-> StrVal(status)],
                                        [k |-> "limit", v |-> IntVal(limit)] >>))

\* The titles of the markets a page holds, in alphabetical order.
Titles == <<"a", "b", "c", "d">>
TitleRank(m) == CHOOSE n \in 1..Len(Titles) : Titles[n] = m

\* sorted(markets, key=keyfn) with the default sort key, the title: a stable sort.
RECURSIVE InsertByTitle(_, _)
InsertByTitle(sortedSeq, m) ==
    IF sortedSeq = <<>> THEN <<m>>
    ELSE IF TitleRank(sortedSeq[Len(sortedSeq)]) <= TitleRank(m) THEN Append(sortedSeq, m)
    ELSE Append(InsertByTitle(SubSeq(sortedSeq, 1, Len(sortedSeq) - 1), m),
                sortedSeq[Len(sortedSeq)])

RECURSIVE SortByTitle(_)
SortByTitle(ms) ==
    IF ms = <<>> THEN <<>>
    ELSE InsertByTitle(SortByTitle(SubSeq(ms, 1, Len(ms) - 1)), ms[Len(ms)])

\* cmd_markets (run with --json) up to its first call into the client.  With --all
\* it evaluates client.paginate(...): KalshiClient has kalpaginate and no paginate,
\* so the attribute lookup raises AttributeError before any request is made.
\* Without --all it calls list_markets(status, limit).
CmdMarkets ==
    /\ op = "idle"
    /\ \E all \in BOOLEAN :
          /\ cmd' = [NoCmd EXCEPT !.name = "markets", !.json = TRUE, !.all = all,
                                  !.status = MarketsStatus,
                                  !.limit = IF all THEN PageLimit ELSE MarketsLimit]
          /\ IF all
             THEN /\ "paginate" \notin ClientMethods
                  /\ console' = Message("AttributeError")
                  /\ op' = "shown"
                  /\ UNCHANGED reqVars
             ELSE /\ EnterRequest("GET", ListMarketsPath(MarketsStatus, MarketsLimit), NoneVal)
                  /\ op' = "markets"
                  /\ UNCHANGED console
    /\ UNCHANGED <<clock, config, client, pagVars, canVars, frames>>

\* What cmd_markets shows for the value list_markets returned (lines 299-345):
\* markets = raw.get("markets", []) if raw else [], no search term, sorted by title,
\* printed as {"markets": markets}.
MarketsShown(raw) ==
    IF Truthy(raw) /\ raw.kind # "dict" THEN Message("AttributeError")
    ELSE [NoConsole EXCEPT !.msg = "json",
                           !.json = [kind |-> "list",
                                     items |-> SortByTitle(IF Truthy(raw) THEN GetItems(raw)
                                                           ELSE <<>>)]]

MarketsReturn ==
    /\ op = "markets"
    /\ reqPc = "returned"
    /\ console' = MarketsShown(result)
    /\ op' = "shown"
    /\ UNCHANGED <<clock, config, client, cmd, reqVars, pagVars, canVars, frames>>

CliNext ==
    \/ CmdFetch
    \/ CmdOrder
    \/ CmdMarkets
    \/ CallPlaceOrder
    \/ SendHttp
    \/ HttpFails
    \/ HttpResponds
    \/ FetchReturn
    \/ OrderReturn
    \/ MarketsReturn
    \/ FinishPlaceOrder
    \/ Exit

\* The commands of the command-line program and direct calls of place_order.
CliSpec == Init /\ [][CliNext]_vars

(***************************************************************************)
(* KalshiClient.cancel_all_for_ticker and main.cmd_cancel_all              *)
(***************************************************************************)
\* The default of --limit of cancel-all.
CancelLimit == 1000

\* An order of a listing: order.get("order_id") is a string, "" or None.
Order(oid) == [order_id |-> oid]
O1 == Order(StrVal("o1"))
O2 == Order(StrVal("o2"))
OrderNoId == Order(NoneVal)
OrderEmptyId == Order(StrVal(""))

\* Objects a server answers the listing with: {"orders": [...], "cursor": ...}.  A
\* non-empty cursor says that the server holds more orders on a further page.
Listings ==
    { Dict({"items"}, <<>>, ""),
      Dict({"items"}, <<O1>>, ""),
      Dict({"items", "cursor"}, <<O1, O2>>, ""),
      Dict({"items"}, <<O1, OrderNoId, O2>>, ""),
      Dict({"items"}, <<OrderEmptyId, O1>>, ""),
      Dict({"items", "cursor"}, <<O1>>, "x"),
      Dict({"cursor"}, <<>>, "") }

\* The object a server answers a cancel of order oid with.
CancelledBody(oid) ==
    [kind |-> "dict", keys |-> {"other"}, items |-> <<>>, cursor |-> "", order_id |-> oid]

\* The path get_orders requests (lines 232-244).
OrdersPath(status, ticker, limit) ==
    LET q0 == << [k |-> "limit", v |-> IntVal(limit)] >>
        q1 == IF status # "" /\ status # "all" THEN DictSet(q0, "status", StrVal(status))
              ELSE q0
        q2 == IF ticker # "" THEN DictSet(q1, "ticker", StrVal(ticker)) ELSE q1
    IN  PagePath("/portfolio/orders", build_query(q2))

\* The path cancel_order requests: f"/portfolio/orders/{order_id}".
CancelPath(oid) == <<"/portfolio/orders", "/", oid>>

\* NotListing without the test for the "orders" key.
NotListingFalsyOnly(r) == ~Truthy(r)

\* Line 257: `not resp or "orders" not in resp`.
NotListing(r) == ~Truthy(r) \/ r.kind # "dict" \/ "items" \notin r.keys

\* KeepCancelled with `if cancelled:` for `if cancelled is not None:`.
KeepCancelledTruthy(rs, cancelled) == IF Truthy(cancelled) THEN Append(rs, cancelled) ELSE rs

\* Lines 266-267: if cancelled is not None: results.append(cancelled).
KeepCancelled(rs, cancelled) == IF cancelled.kind # "None" THEN Append(rs, cancelled) ELSE rs

\* A call of request() made by cancel_all_for_ticker, and what it returned.
Issued(m, p) == [method |-> m, path |-> p, returned |-> FALSE, value |-> NoneVal]
Returned(c, v) == [c EXCEPT !.returned = TRUE, !.value = v]

\* cmd_cancel_all and cancel_all_for_ticker up to the call of request() in
\* get_orders (line 256).
CmdCancelAll ==
    /\ op = "idle"
    /\ op' = "cancel_all"
    /\ \E status \in {"resting", "all"}, json \in BOOLEAN :
          /\ cmd' = [NoCmd EXCEPT !.name = "cancel-all", !.json = json, !.status = status,
                                  !.limit = CancelLimit]
          /\ EnterRequest("GET", OrdersPath(status, Ticker, CancelLimit), NoneVal)
          /\ canCalls' = <<Issued("GET", OrdersPath(status, Ticker, CancelLimit))>>
    /\ canPc' = "listing"
    /\ canResp' = NoneVal
    /\ canIdx' = 0
    /\ results' = <<>>
    /\ UNCHANGED <<clock, config, client, console, pagVars, frames>>

\* Lines 256-258: the listing is back.
CanListed ==
    /\ op = "cancel_all"
    /\ canPc = "listing"
    /\ reqPc = "returned"
    /\ canResp' = result
    /\ canCalls' = [canCalls EXCEPT ![1] = Returned(@, result)]
    /\ IF NotListing(result)
       THEN /\ canPc' = "returned_none"
            /\ UNCHANGED canIdx
       ELSE /\ canPc' = "loop"
            /\ canIdx' = 1
    /\ results' = <<>>
    /\ ClearRequest
    /\ UNCHANGED <<op, cliVars, pagVars, frames>>

\* Lines 261-264 and 268: the next order of the loop; an order without id is
\* skipped, the end of the list returns results.
CanNext ==
    /\ op = "cancel_all"
    /\ canPc = "loop"
    /\ IF canIdx > Len(GetItems(canResp))
       THEN /\ canPc' = "returned_list"
            /\ UNCHANGED <<canIdx, canCalls, reqVars>>
       ELSE LET oid == GetItems(canResp)[canIdx].order_id
            IN  IF ~Truthy(oid)
                THEN /\ canIdx' = canIdx + 1
                     /\ UNCHANGED <<canPc, canCalls, reqVars>>
                ELSE /\ EnterRequest("DELETE", CancelPath(oid.s), NoneVal)
                     /\ canCalls' = Append(canCalls, Issued("DELETE", CancelPath(oid.s)))
                     /\ canPc' = "cancel"
                     /\ UNCHANGED canIdx
    /\ UNCHANGED <<op, cliVars, pagVars, canResp, results, frames>>

\* Lines 265-267: cancel_order is back.
CanCancelled ==
    /\ op = "cancel_all"
    /\ canPc = "cancel"
    /\ reqPc = "returned"
    /\ results' = KeepCancelled(results, result)
    /\ canCalls' = [canCalls EXCEPT ![Len(canCalls)] = Returned(@, result)]
    /\ canIdx' = canIdx + 1
    /\ canPc' = "loop"
    /\ ClearRequest
    /\ UNCHANGED <<op, cliVars, pagVars, canResp, frames>>

\* What cmd_cancel_all shows for the value cancel_all_for_ticker returned.
CancelAllShown(json, isNone, rs) ==
    IF isNone THEN Message("Failed to fetch or cancel orders for ticker " \o Ticker \o ".")
    ELSE IF json THEN [NoConsole EXCEPT !.msg = "json", !.json = [kind |-> "list", items |-> rs]]
    ELSE Message("Sent cancel requests for " \o ToString(Len(rs)) \o " order(s)")

CancelAllReturn ==
    /\ op = "cancel_all"
    /\ canPc \in {"returned_none", "returned_list"}
    /\ console' = CancelAllShown(cmd.json, canPc = "returned_none", results)
    /\ op' = "shown"
    /\ UNCHANGED <<clock, config, client, cmd, reqVars, pagVars, canVars, frames>>

\* The server answers the listing GET in flight with status 200 and a JSON value.
OrdersResponds ==
    /\ reqPc = "inflight"
    /\ method = "GET"
    /\ \E b \in Listings \cup {EmptyDict, ListVal} :
          HandleResponse(200, [json |-> TRUE, value |-> b], "absent")

\* The server answers the cancel DELETE in flight with status 200 and the order
\* cancelled, or an empty object.
CancelResponds ==
    /\ reqPc = "inflight"
    /\ method = "DELETE"
    /\ \E b \in {CancelledBody(path[3]), EmptyDict} :
          HandleResponse(200, [json |-> TRUE, value |-> b], "absent")

\* The server answers the call in flight with an error status and an error object
\* or a body that is not JSON, or with status 200 and a body that is not JSON.
ErrorResponds ==
    /\ reqPc = "inflight"
    /\ \/ \E status \in {401, 404, 500}, raw \in {[json |-> TRUE, value |-> ErrorBody],
                                                  [json |-> FALSE, value |-> NoneVal]} :
             HandleResponse(status, raw, "absent")
       \/ HandleResponse(200, [json |-> FALSE, value |-> NoneVal], "absent")

CancelNext ==
    \/ CmdCancelAll
    \/ SendHttp
    \/ HttpFails
    \/ OrdersResponds
    \/ CancelResponds
    \/ ErrorResponds
    \/ CanListed
    \/ CanNext
    \/ CanCancelled
    \/ CancelAllReturn
    \/ Exit

\* The cancel-all command against a server that answers with order listings.
CancelSpec == Init /\ [][CancelNext]_vars

(***************************************************************************)
(* KalshiClient.request called by two threads on one client.               *)
(*                                                                         *)
(* method, ts_ms, signature, headers, url and resp are locals of the call  *)
(* and live in its frame; self is only read (api_key_id, base_url,         *)
(* private_key).  requests.get/request/delete open a session of their own  *)
(* for each call.                                                          *)
(***************************************************************************)
\* The calls the threads make.
ConcurrentCalls ==
    { [method |-> "get", path |-> <<"/markets", "?", "status=open">>, data |-> NoneVal],
      [method |-> "POST", path |-> <<"/portfolio/orders">>, data |-> Dict({"other"}, <<>>, "")],
      [method |-> "DELETE", path |-> <<"/portfolio/orders", "/", "o1">>, data |-> NoneVal] }

\* What the server answers a call with.
ConcurrentAnswers ==
    { [status |-> 200, raw |-> [json |-> TRUE, value |-> Dict({"items"}, <<"c">>, "")]],
      [status |-> 200, raw |-> [json |-> TRUE, value |-> EmptyDict]],
      [status |-> 401, raw |-> [json |-> TRUE, value |-> ErrorBody]],
      [status |-> 200, raw |-> [json |-> FALSE, value |-> NoneVal]] }

\* CallHeaders with the headers kept in one dict on the instance, which every call
\* that enters overwrites: a call sends what the other call wrote while it runs.
CallHeadersOnInstance(fs, t) ==
    LET others == {u \in Threads : u # t /\ fs[u].pc # "none"}
        w == IF others = {} THEN t ELSE CHOOSE u \in others : TRUE
    IN  Headers(client.api_key_id, fs[w].signed.ts_ms, fs[w].signed.signature)

\* The headers the call of thread t hands to requests: the local dict of lines
\* 80-85, built from the locals ts_ms and signature of the same frame.
CallHeaders(fs, t) ==
    Headers(client.api_key_id, fs[t].signed.ts_ms, fs[t].signed.signature)

\* Thread t enters request(method, path, data): lines 75-87.
ThreadEnters(t) ==
    /\ op = "idle"
    /\ frames[t].pc = "none"
    /\ \E a \in ConcurrentCalls :
          frames' = [frames EXCEPT ![t] =
              [NoFrame EXCEPT !.pc = "prepared",
                              !.args = a,
                              !.entered = clock,
                              !.method = Upper(a.method),
                              !.signed = [ts_ms |-> TimestampMs(clock),
                                          signature |-> create_signature(client.private_key,
                                                            TimestampMs(clock),
                                                            Upper(a.method), a.path)]]]
    /\ UNCHANGED <<op, cliVars, reqVars, pagVars, canVars>>

\* Lines 89-104 in thread t: the call is handed to the transport, or ValueError
\* is raised for a method that is not supported.
ThreadSends(t) ==
    /\ frames[t].pc = "prepared"
    /\ LET f == frames[t]
       IN  IF f.method \in SupportedMethods
           THEN frames' = [frames EXCEPT ![t] =
                    [f EXCEPT !.pc = "inflight",
                              !.sent = [method |-> f.method, path |-> f.args.path,
                                        url |-> build_url(client.base_url, f.args.path),
                                        headers |-> CallHeaders(frames, t),
                                        hasBody |-> BodySent(f.method, f.args.data).hasBody,
                                        body |-> BodySent(f.method, f.args.data).body]]]
           ELSE frames' = [frames EXCEPT ![t] = [f EXCEPT !.pc = "raised"]]
    /\ UNCHANGED <<op, cliVars, reqVars, pagVars, canVars>>

\* Lines 105-107 in thread t: the transport raised RequestException.
ThreadFails(t) ==
    /\ frames[t].pc = "inflight"
    /\ frames' = [frames EXCEPT ![t] =
          [@ EXCEPT !.pc = "returned",
                    !.outcome = [NoOutcome EXCEPT !.kind = "transport"],
                    !.result = RequestErrorResult]]
    /\ UNCHANGED <<op, cliVars, reqVars, pagVars, canVars>>

\* Lines 115-119 in thread t: the response to its HTTP call arrived.
ThreadResponds(t) ==
    /\ frames[t].pc = "inflight"
    /\ \E a \in ConcurrentAnswers :
          frames' = [frames EXCEPT ![t] =
              [@ EXCEPT !.pc = "returned",
                        !.outcome = [kind |-> "response", status |-> a.status, raw |-> a.raw,
                                     retryAfter |-> "absent"],
                        !.result = IF ParseJson(a.raw).ok THEN ParseJson(a.raw).value
                                   ELSE InvalidJsonResult]]
    /\ UNCHANGED <<op, cliVars, reqVars, pagVars, canVars>>

\* The caller in thread t takes the return value; the frame is gone.
ThreadReturns(t) ==
    /\ frames[t].pc \in {"returned", "raised"}
    /\ frames' = [frames EXCEPT ![t] = NoFrame]
    /\ UNCHANGED <<op, cliVars, reqVars, pagVars, canVars>>

ConcurrentNext ==
    \/ Tick
    \/ \E t \in Threads : ThreadEnters(t)
    \/ \E t \in Threads : ThreadSends(t)
    \/ \E t \in Threads : ThreadFails(t)
    \/ \E t \in Threads : ThreadResponds(t)
    \/ \E t \in Threads : ThreadReturns(t)

\* Two threads calling request() on the one constructed client, their steps
\* interleaved in every order.
ConcurrentSpec == Init /\ [][ConcurrentNext]_vars

(***************************************************************************)
(* Properties of request().                                                *)
(***************************************************************************)
\* The call has returned and its HTTP call was answered with a status in S.
ReturnedWithStatus(S) ==
    reqPc = "returned" /\ outcome.kind = "response" /\ outcome.status \in S

\* The call has returned after a transport failure (no response received).
ReturnedAfterTransportFailure == reqPc = "returned" /\ outcome.kind = "transport"

\* C1: a call whose response has status 401 makes exactly one HTTP call and ends
\* in an error (None is the only error request() returns), never in the parsed
\* body of the 401 response.
C1_AuthRejected ==
    ReturnedWithStatus({401}) => (httpCalls = 1 /\ result = NoneVal)

C3_RetryableNotReturned ==
    ReturnedWithStatus(RetryableStatuses) =>
        (httpCalls = max_attempts /\ result = NoneVal)

\* C4: a response whose status is outside [200,300) and not 401, 429, 500, 502,
\* 503 or 504 ends the call after exactly one HTTP call in an error, never in the
\* parsed body of that response.
C4_OtherStatusFails ==
    (/\ reqPc = "returned"
     /\ outcome.kind = "response"
     /\ ~IsSuccessStatus(outcome.status)
     /\ outcome.status \notin ({401} \cup RetryableStatuses))
    => (httpCalls = 1 /\ result = NoneVal)

\* C5: the number of HTTP calls of a logical call stays within 0..max_attempts,
\* and every logical call that was entered reaches a terminal state (it returns
\* or raises), whatever the network and the server do.
C5_BoundedAndTerminates ==
    /\ [](httpCalls \in 0..max_attempts)
    /\ (reqPc \in {"prepared", "inflight"}) ~> (reqPc \in {"returned", "raised"})

C5_Witness ==
    reqPc = "returned" /\ httpCalls = 1 /\ outcome.kind = "response"
    /\ outcome.status = 503

PageItems(v) == IF v.kind = "dict" /\ "items" \in v.keys THEN v.items ELSE <<>>

\* The page carries a non-empty cursor.
HasCursor(v) == v.kind = "dict" /\ "cursor" \in v.keys /\ v.cursor # ""

\* Concatenation of the item lists of the first n pages received.
RECURSIVE ConcatItems(_, _)
ConcatItems(pages, n) ==
    IF n = 0 THEN <<>> ELSE ConcatItems(pages, n - 1) \o PageItems(pages[n].value)

\* Every page request so far was answered 2xx with a JSON object.
AllPagesDelivered ==
    \A i \in 1..Len(pagesGot) :
        pagesGot[i].ok /\ pagesGot[i].how = "" /\ pagesGot[i].value.kind = "dict"

\* What has been yielded while page n is being walked through.
YieldedSoFar ==
    IF pagPc = "yield"
    THEN ConcatItems(pagesGot, Len(pagesGot) - 1)
         \o SubSeq(PageItems(pagesGot[Len(pagesGot)].value), 1, idx - 1)
    ELSE ConcatItems(pagesGot, Len(pagesGot))

\* C8: when every page request succeeds, the paginator yields the item lists of
\* the pages in server order (at every moment a prefix of their concatenation),
\* goes on after every page with a non-empty cursor, also one without items, and
\* terminates exactly at the first page whose cursor is absent or empty, having
\* yielded the whole concatenation.
C8_YieldsConcatenation ==
    (op = "paginate" /\ AllPagesDelivered) =>
        /\ yielded = YieldedSoFar
        /\ pagPc = "done" =>
              /\ pagesGot # <<>>
              /\ ~HasCursor(pagesGot[Len(pagesGot)].value)
              /\ \A i \in 1..(Len(pagesGot) - 1) : HasCursor(pagesGot[i].value)
              /\ yielded = ConcatItems(pagesGot, Len(pagesGot))
              /\ Len(pageCalls) = Len(pagesGot)
        /\ (pagPc \in {"loop", "await"} /\ pagesGot # <<>>) =>
              HasCursor(pagesGot[Len(pagesGot)].value)

C8_Witness ==
    /\ pagPc = "done"
    /\ AllPagesDelivered
    /\ Len(pagesGot) = 3
    /\ PageItems(pagesGot[2].value) = <<>>
    /\ yielded = <<"a", "b", "c">>

\* C9: no cursor value used in a page request is used in a later page request.
C9_NoCursorReuse ==
    \A i, j \in 1..Len(pageCalls) :
        i < j => pageCalls[i].cursor # pageCalls[j].cursor

\* The cursor value a received page hands to the next request.
ServedCursor(v) ==
    IF v.kind = "dict" /\ "cursor" \in v.keys THEN [kind |-> "str", s |-> v.cursor]
    ELSE NoneVal

\* C9 as amended: the first page request carries no cursor and every later one
\* carries exactly the cursor of the page received just before it, so a cursor
\* is requested again only when the server hands it out again; for every server
\* behaviour, retrieving N pages takes exactly N calls of request.
C9_CursorFollowsServer ==
    /\ Len(pageCalls) = Len(pagesGot) + (IF pagPc = "await" THEN 1 ELSE 0)
    /\ pageCalls # <<>> => pageCalls[1].cursor = NoneVal
    /\ \A k \in 2..Len(pageCalls) :
          /\ pageCalls[k].cursor = ServedCursor(pagesGot[k - 1].value)
          /\ pageCalls[k].cursor.s # ""
    /\ (\A i, j \in 1..Len(pagesGot) :
            i < j => ServedCursor(pagesGot[i].value) # ServedCursor(pagesGot[j].value))
       => (\A i, j \in 1..Len(pageCalls) :
            i < j => pageCalls[i].cursor # pageCalls[j].cursor)

C9_Witness ==
    /\ Len(pageCalls) = 3
    /\ Len(pagesGot) = 3
    /\ pageCalls[2].cursor # pageCalls[3].cursor

\* The request for the last page asked for failed: request() returned None after
\* a transport failure or a body that is not JSON.
LastRequestFailed ==
    /\ pagesGot # <<>>
    /\ pagesGot[Len(pagesGot)].how # ""
    /\ pagesGot[Len(pagesGot)].value = NoneVal

UpperCaseMethods == {"GET", "POST", "PUT", "PATCH", "DELETE", "HEAD"}

\* C11: the string signed for a request is its timestamp, its method in upper
\* case, the API prefix and the path up to (not including) the first "?"; it
\* holds no "?", so /markets?status=open signs what /markets signs.
C11_SignedString ==
    reqPc # "none" =>
        LET msg == signed.signature.message
            full == <<signed.ts_ms, method, API_BASE_PATH>> \o path
            k == Len(msg)
        IN  /\ method \in UpperCaseMethods
            /\ \A i \in 1..k : msg[i] # "?"
            /\ k <= Len(full)
            /\ msg = SubSeq(full, 1, k)
            /\ k = Len(full) \/ full[k + 1] = "?"
            /\ path = <<"/markets", "?", "status=open">>
                  => msg = <<signed.ts_ms, method, API_BASE_PATH, "/markets">>

C11_Witness ==
    /\ reqPc = "inflight"
    /\ path = <<"/markets", "?", "status=open">>
    /\ signed.signature.message = <<"1", "GET", API_BASE_PATH, "/markets">>

CountPrefix(u) == Cardinality({i \in 1..Len(u) : u[i] = API_BASE_PATH})

BaseUrlSupported(b) ==
    LET u == RStripSlash(b)
    IN  \/ CountPrefix(u) = 0
        \/ CountPrefix(u) = 1 /\ u[Len(u)] = API_BASE_PATH

\* The base URL without trailing slashes and without a prefix at its end.
Stem(b) ==
    LET u == RStripSlash(b)
    IN  IF u # <<>> /\ u[Len(u)] = API_BASE_PATH THEN SubSeq(u, 1, Len(u) - 1) ELSE u

FourHeaders == {"KALSHI-ACCESS-KEY", "KALSHI-ACCESS-TIMESTAMP", "KALSHI-ACCESS-SIGNATURE",
                "Content-Type"}

\* C13: a call of request() reads the clock when it is entered and signs that
\* reading; the HTTP call it makes carries the four headers, its timestamp header
\* is the timestamp inside the signed string of its signature header, and both
\* are the ones computed in this call.
C13_FreshTimestamp ==
    [][ /\ (reqPc = "none" /\ reqPc' = "prepared") =>
              /\ signed'.ts_ms = ToString(clock)
              /\ signed'.signature.message[1] = ToString(clock)
              /\ signed'.signature.key = client.private_key
        /\ (httpCalls' = httpCalls + 1) =>
              /\ sent'.headers.names = FourHeaders
              /\ sent'.headers.key = client.api_key_id
              /\ sent'.headers.contentType = "application/json"
              /\ sent'.headers.timestamp = signed.ts_ms
              /\ sent'.headers.signature = signed.signature
              /\ sent'.headers.signature.message[1] = sent'.headers.timestamp
        /\ (reqPc # "none" /\ reqPc' # "none") => signed' = signed
      ]_vars

C13_Witness ==
    /\ reqPc = "inflight"
    /\ clock = 1
    /\ sent.headers.names = FourHeaders
    /\ sent.headers.timestamp = "1"
    /\ sent.headers.signature.message[1] = "1"

\* C14 as stated: an HTTP call carries a body exactly when its method is not GET
\* and the data given to request() is non-empty.
C14_BodyIffNonEmpty ==
    sent # NoSent => (sent.hasBody <=> (sent.method # "GET" /\ Truthy(data)))

\* C14, amended: GET never carries a body; POST, PUT and PATCH always carry one,
\* the data given or the empty object when none or an empty one was given; DELETE
\* carries the data given exactly when it is non-empty.
C14_BodySent ==
    sent # NoSent =>
        /\ sent.method = "GET" => ~sent.hasBody
        /\ sent.method \in {"POST", "PUT", "PATCH"} =>
              /\ sent.hasBody
              /\ sent.body = IF Truthy(data) THEN data ELSE EmptyDict
        /\ sent.method = "DELETE" =>
              /\ sent.hasBody <=> Truthy(data)
              /\ sent.hasBody => sent.body = data

C14_Witness ==
    /\ sent.method = "POST"
    /\ data = NoneVal
    /\ sent.hasBody
    /\ sent.body = EmptyDict

(***************************************************************************)
(* Properties of client construction.                                      *)
(***************************************************************************)
\* C17: when the private key file is missing, unreadable or no valid unencrypted
\* PEM key, no client ever exists: the program does not get past construction,
\* and no request is entered, nothing is signed and no HTTP call is made.
C17_NoClientWithoutKey ==
    config.keyFile # "valid_pem" =>
        /\ client = NoClient
        /\ op \in {"start", "configured", "crashed"}
        /\ reqPc = "none"
        /\ signed = NoSigned
        /\ sent = NoSent
        /\ httpCalls = 0

\* __init__ raised on a key file that is present but does not load.
C17_Witness ==
    /\ op = "crashed"
    /\ config.api_key_id = "key-1"
    /\ config.keyFile \in {"unreadable", "not_pem", "encrypted_pem"}
    /\ client = NoClient

(***************************************************************************)
(* Properties of the commands.                                             *)
(***************************************************************************)
\* Exactly one of the two prices is given, it lies in 1..99, and the quantity is
\* positive.
AcceptableOrder(c) ==
    LET yesGiven == c.yes.kind # "None"
        noGiven == c.no.kind # "None"
    IN  /\ yesGiven # noGiven
        /\ yesGiven => c.yes.n \in 1..99
        /\ noGiven => c.no.n \in 1..99
        /\ c.qty > 0

RejectionMessages ==
    { "You must provide either --yes or --no price.",
      "Provide only one of --yes or --no, not both.",
      "--yes price must be between 1 and 99 (cents).",
      "--no price must be between 1 and 99 (cents).",
      "--qty must be positive." }

\* C15: an order command whose arguments do not give exactly one price in 1..99
\* and a positive quantity ends with a rejection message; no request is entered
\* and no HTTP call is made for it.
C15_RejectedBeforeNetwork ==
    cmd.name = "order" /\ ~AcceptableOrder(cmd) =>
        /\ op = "shown"
        /\ console.msg \in RejectionMessages
        /\ reqPc = "none"
        /\ sent = NoSent
        /\ httpCalls = 0

C15_Witness ==
    /\ op = "shown"
    /\ cmd.name = "order"
    /\ cmd.yes = IntVal(100)
    /\ cmd.no.kind = "None"
    /\ cmd.qty = 1
    /\ console.msg = "--yes price must be between 1 and 99 (cents)."
    /\ httpCalls = 0

\* A legitimate empty result: an object whose list of orders or positions is empty.
EmptyResult == Dict({"items"}, <<>>, "")

\* C16: what a fetch of balance, orders or positions shows after the server
\* answered 401, or with a body that is not JSON, differs from what the command
\* shows for a legitimate empty result.
C16_FailureDistinct ==
    ( /\ op = "shown"
      /\ cmd.name \in FetchNames
      /\ outcome.kind = "response"
      /\ outcome.status = 401 \/ ~outcome.raw.json )
    => console # FetchShown(cmd.name, cmd.json, EmptyResult)

OrderSent ==
    /\ cmd.name \in {"order", "place_order"}
    /\ sent # NoSent
    /\ sent.method = "POST"
    /\ sent.path = <<"/portfolio/orders">>

BaseOrderKeys == {"ticker", "action", "type", "side", "count"}
PriceKeys == {"yes_price", "no_price"}

\* C18 as stated: every body sent to POST /portfolio/orders holds the five base
\* keys and exactly one of yes_price / no_price, whatever prices place_order is given.
C18_ExactlyOnePrice ==
    OrderSent =>
        /\ sent.hasBody
        /\ BaseOrderKeys \subseteq sent.body.keys
        /\ Cardinality(sent.body.keys \cap PriceKeys) = 1

\* The value a dict holds under key k.
Lookup(d, k) == d.pairs[CHOOSE i \in 1..Len(d.pairs) : d.pairs[i].k = k].v

\* C18, amended: every body sent to POST /portfolio/orders holds the five base
\* keys, yes_price exactly when a yes price was given and no_price exactly when
\* a no price was given, each with the value given; an order placed from
\* command-line arguments holds exactly one of the two, in 1..99.
C18_BodyKeys ==
    OrderSent =>
        /\ sent.hasBody
        /\ BaseOrderKeys \subseteq sent.body.keys
        /\ sent.body.keys \subseteq BaseOrderKeys \cup PriceKeys
        /\ "yes_price" \in sent.body.keys <=> cmd.yes.kind # "None"
        /\ "no_price" \in sent.body.keys <=> cmd.no.kind # "None"
        /\ "yes_price" \in sent.body.keys => Lookup(sent.body, "yes_price") = cmd.yes
        /\ "no_price" \in sent.body.keys => Lookup(sent.body, "no_price") = cmd.no
        /\ Lookup(sent.body, "count") = IntVal(cmd.qty)
        /\ cmd.name = "order" =>
              /\ Cardinality(sent.body.keys \cap PriceKeys) = 1
              /\ \A k \in sent.body.keys \cap PriceKeys : Lookup(sent.body, k).n \in 1..99

C18_Witness ==
    /\ op = "place_order"
    /\ reqPc = "inflight"
    /\ OrderSent
    /\ PriceKeys \subseteq sent.body.keys

(***************************************************************************)
(* Properties of the balance display.                                      *)
(***************************************************************************)
DigitValue(ch) == CHOOSE d \in 0..9 : DigitChars[d + 1] = ch

\* The number a sequence of digit characters denotes, separators skipped.
RECURSIVE ReadNumber(_)
ReadNumber(toks) ==
    IF toks = <<>> THEN 0
    ELSE IF toks[Len(toks)] = "," THEN ReadNumber(SubSeq(toks, 1, Len(toks) - 1))
    ELSE ReadNumber(SubSeq(toks, 1, Len(toks) - 1)) * 10 + DigitValue(toks[Len(toks)])

\* A shown amount reads "$", whole dollars, ".", two digits of cents.
WellFormedAmount(text) ==
    /\ Len(text) >= 5
    /\ text[1] = "$"
    /\ text[Len(text) - 2] = "."
    /\ \A i \in (2..Len(text)) \ {Len(text) - 2} :
          \E d \in 1..10 : text[i] = DigitChars[d] \/ (text[i] = "," /\ i < Len(text) - 2)

ShownDollars(text) == ReadNumber(SubSeq(text, 2, Len(text) - 3))
ShownCents(text) == ReadNumber(SubSeq(text, Len(text) - 1, Len(text)))

\* The amount, in cents, a balance object holds under key k (0 when absent or null).
AmountOf(d, k) ==
    IF k \notin d.keys THEN 0
    ELSE LET v == IF k = "balance" THEN d.balance ELSE d.portfolio_value
         IN  IF v.kind = "int" THEN v.n ELSE 0

PathParams(p) == {p[i] : i \in {j \in 3..Len(p) : p[j] # "&"}}

\* The fixed parameters the run was called with; _build_query leaves out those
\* whose value is None or "".
FixedParams ==
    IF pg.params.kind = "None" THEN {}
    ELSE { pg.params.pairs[i].k \o "=" \o Format(pg.params.pairs[i].v) :
             i \in {j \in 1..Len(pg.params.pairs) :
                      /\ pg.params.pairs[j].v.kind # "None"
                      /\ ~(pg.params.pairs[j].v.kind = "str" /\ pg.params.pairs[j].v.s = "")} }

\* C19: the first page request of a run carries limit = page size and the fixed
\* parameters and no cursor; the request for page k+1 carries the same limit and
\* fixed parameters and cursor = the cursor that page k returned.
C19_PageRequestParams ==
    \A k \in 1..Len(pageCalls) :
        LET p == pageCalls[k].path
            expected == FixedParams \cup {"limit=" \o ToString(pg.limit)}
                        \cup (IF k = 1 THEN {}
                              ELSE {"cursor=" \o pagesGot[k - 1].value.cursor})
        IN  /\ p[1] = pg.base_path
            /\ p[2] = "?"
            /\ PathParams(p) = expected
            /\ Len(p) = 2 * Cardinality(expected) + 1
            /\ k > 1 => /\ HasCursor(pagesGot[k - 1].value)
                        /\ PathParams(p) \ {"cursor=" \o pagesGot[k - 1].value.cursor}
                              = PathParams(pageCalls[1].path)

C19_Witness ==
    /\ Len(pageCalls) = 3
    /\ pageCalls[1].path = <<"/markets", "?", "status=open", "&", "limit=100">>
    /\ pageCalls[2].path = <<"/markets", "?", "status=open", "&", "limit=100", "&", "cursor=x">>
    /\ pageCalls[3].path = <<"/markets", "?", "status=open", "&", "limit=100", "&", "cursor=y">>

(***************************************************************************)
(* Properties of the markets command.                                      *)
(***************************************************************************)
\* C21: the markets command run with --all drives the paginator over /markets with
\* page size page_limit and the status filter, and shows what the pages hold; it
\* does not end in an error before any page was asked for.
C21_AllUsesPaginator ==
    cmd.name = "markets" /\ cmd.all =>
        /\ console.msg # "AttributeError"
        /\ pg.base_path = "/markets"
        /\ pg.limit = PageLimit
        /\ pageCalls # <<>>

(***************************************************************************)
(* Properties of cancel-all.                                               *)
(***************************************************************************)
\* The listing came back as an object with an "orders" list.
ListingSucceeded ==
    /\ canCalls # <<>>
    /\ canCalls[1].returned
    /\ canCalls[1].value.kind = "dict"
    /\ canCalls[1].value.keys # {}
    /\ "items" \in canCalls[1].value.keys

\* C22: when cancel-all has ended and the listing carried a non-empty cursor with
\* fewer orders than the limit, the orders of the follow-up page were asked for
\* (a second listing request was made), so that they can be cancelled too.
C22_CancelsFollowUpPages ==
    ( /\ op = "shown"
      /\ cmd.name = "cancel-all"
      /\ ListingSucceeded
      /\ HasCursor(canResp)
      /\ Len(GetItems(canResp)) < cmd.limit )
    => \E k \in 2..Len(canCalls) : canCalls[k].method = "GET"

\* C25: cancel_all_for_ticker makes one request first, the GET of the order
\* listing, and no other GET after it; when the listing fails, is falsy or has no
\* "orders" key, it returns None without any DELETE, and the command reports the
\* failure.
C25_OneListingFirst ==
    /\ canPc # "none" => canCalls # <<>>
    /\ canCalls # <<>> =>
          /\ canCalls[1].method = "GET"
          /\ canCalls[1].path[1] = "/portfolio/orders"
          /\ \A k \in 2..Len(canCalls) : canCalls[k].method = "DELETE"
          /\ ~canCalls[1].returned => Len(canCalls) = 1
    /\ (canCalls # <<>> /\ canCalls[1].returned /\ ~ListingSucceeded) =>
          /\ Len(canCalls) = 1
          /\ canPc = "returned_none"
          /\ results = <<>>
          /\ sent.method # "DELETE"
          /\ op = "shown" =>
                console.msg = "Failed to fetch or cancel orders for ticker TICKER-1."

\* The listing was answered 401 with an error object.
C25_Witness ==
    /\ op = "shown"
    /\ canPc = "returned_none"
    /\ Len(canCalls) = 1
    /\ canCalls[1].returned
    /\ canCalls[1].value = ErrorBody
    /\ console.msg = "Failed to fetch or cancel orders for ticker TICKER-1."

\* The ids of the listed orders that have a non-empty order_id, in listing order.
RECURSIVE IdsOf(_)
IdsOf(orders) ==
    IF orders = <<>> THEN <<>>
    ELSE LET oid == orders[1].order_id
         IN  (IF oid.kind = "str" /\ oid.s # "" THEN <<oid.s>> ELSE <<>>)
             \o IdsOf(Tail(orders))

\* What the calls that have returned something other than None returned, in order.
RECURSIVE ValuesOf(_)
ValuesOf(calls) ==
    IF calls = <<>> THEN <<>>
    ELSE (IF calls[1].returned /\ calls[1].value.kind # "None" THEN <<calls[1].value>>
          ELSE <<>>)
         \o ValuesOf(Tail(calls))

UrlPath(u) == BeforeQuery(Tail(u))

\* The method and the path inside the signed string of the signature header are
\* the method of the HTTP call and the path component of its URL.
SignedAsRequested ==
    LET msg == sent.headers.signature.message
    IN  /\ Len(msg) >= 2
        /\ msg[2] = sent.method
        /\ SubSeq(msg, 3, Len(msg)) = UrlPath(sent.url)

\* C24 as stated: for a base URL that is free of the API prefix or ends with it,
\* the path signed is the path component (query excluded) of the URL requested
\* and the method signed is the method sent.
C24_SignedPathIsUrlPath ==
    sent # NoSent /\ BaseUrlSupported(config.base_url) => SignedAsRequested

\* C24, amended: for a base URL that is scheme and host alone or scheme and host
\* followed by the API prefix (trailing slashes or not), the path signed is the
\* path component (query excluded) of the URL requested and the method signed is
\* the method sent.
C24_SignedPathIsUrlPathAtRoot ==
    sent # NoSent /\ BaseUrlSupported(config.base_url) /\ Len(Stem(config.base_url)) = 1
        => SignedAsRequested

C24_Witness ==
    /\ sent # NoSent
    /\ config.base_url = <<Host, API_BASE_PATH, "/">>
    /\ sent.method = "GET"
    /\ sent.url = <<Host, API_BASE_PATH, "/markets", "?", "status=open">>
    /\ SubSeq(sent.headers.signature.message, 2, 4) = <<"GET", API_BASE_PATH, "/markets">>

(***************************************************************************)
(* Properties of concurrent calls.                                         *)
(***************************************************************************)
\* What the HTTP call of a frame has to be, going by the arguments the call was
\* entered with, the clock reading at its entry and the constructed client.
OwnRequest(f) ==
    LET m == IF f.args.method = "get" THEN "GET" ELSE f.args.method
        ts == ToString(f.entered)
        withBody == m \in {"POST", "PUT", "PATCH"} \/ (m = "DELETE" /\ Truthy(f.args.data))
    IN  [method |-> m,
         path |-> f.args.path,
         url |-> <<Host, API_BASE_PATH>> \o f.args.path,
         headers |-> [names |-> FourHeaders, key |-> "key-1", timestamp |-> ts,
                      signature |-> [key |-> "private-key",
                                     message |-> <<ts, m, API_BASE_PATH>>
                                                 \o BeforeQuery(f.args.path)],
                      contentType |-> "application/json"],
         hasBody |-> withBody,
         body |-> IF ~withBody THEN NoneVal
                  ELSE IF Truthy(f.args.data) THEN f.args.data ELSE EmptyDict]

\* What a frame has to return, going by what came back on its own HTTP call.
OwnResult(f) ==
    IF f.outcome.kind = "response" /\ f.outcome.raw.json THEN f.outcome.raw.value
    ELSE NoneVal

\* C23: whatever the other thread does in between, the HTTP call of a thread has
\* the URL, headers, timestamp, signature and body of its own arguments and its
\* own entry time, the value it returns is that of its own response, and the
\* client keeps the key identifier, private key and base URL it was constructed
\* with.
C23_CallsDoNotInterfere ==
    /\ \A t \in Threads :
          LET f == frames[t]
          IN  /\ f.pc \in {"inflight", "returned"} => f.sent = OwnRequest(f)
              /\ f.pc = "returned" => f.result = OwnResult(f)
    /\ client = [state |-> "ready", api_key_id |-> "key-1", base_url |-> DefaultBaseUrl,
                 private_key |-> "private-key"]

\* Thread 1 entered a GET first and is still waiting; thread 2 entered a POST
\* later, sent it and has its answer.
C23_Witness ==
    /\ frames[1].pc = "inflight"
    /\ frames[1].args.method = "get"
    /\ frames[1].sent.headers.timestamp = "0"
    /\ frames[2].pc = "returned"
    /\ frames[2].args.method = "POST"
    /\ frames[2].sent.headers.timestamp = "1"
    /\ frames[2].sent.hasBody
    /\ frames[2].result = Dict({"items"}, <<"c">>, "")

====
